---- MODULE Spec2Model ----
(***************************************************************************)
(* Model of the pass descriptor codec of tket-json-rs (src/pass.rs and     *)
(* src/pass/standard.rs).  The codec is what `#[derive(Serialize,          *)
(* Deserialize)]` generates for the declared types under their serde       *)
(* attributes, driven by serde_json:                                       *)
(*   - BasePass      : internally tagged by `pass_class`, every variant a  *)
(*                     struct variant with one field renamed to the tag;   *)
(*   - StandardPass  : internally tagged by `name`, unit variants and      *)
(*                     newtype variants around a struct;                   *)
(*   - structs       : one key per field, unknown keys ignored, Option     *)
(*                     fields skipped on encode when None.                 *)
(*                                                                         *)
(* JSON values are tagged records, so that values of different JSON kinds  *)
(* are comparable:                                                         *)
(*   [null |-> TRUE]  [bool |-> b]  [int |-> k]  [flt |-> n]  [str |-> s]  *)
(*   [arr |-> <<..>>] [obj |-> f]   (f a function from key strings)        *)
(* A JSON number keeps the kind serde_json gives it: [int |-> k] is the    *)
(* integer k, [flt |-> n] is the floating-point number n/2.                *)
(*                                                                         *)
(* Typed (in-memory) field values are tagged records too:                  *)
(*   [bool |-> b] [f64 |-> n] (n/2, finite) [f64_nonfinite |-> "NaN"]      *)
(*   [u32 |-> k] [i64 |-> k] [string |-> s] [vec |-> <<s1, ..>>]           *)
(*   [enum |-> "CX"] [value |-> json] [circuit |-> c] [routing |-> <<..>>] *)
(*   [qubit_map |-> <<..>>] [fidelities |-> [CX, ZZMax, ZZPhase]]          *)
(*   [none |-> TRUE] [some |-> v]                                          *)
(***************************************************************************)
EXTENDS Integers, Sequences, FiniteSets, TLC

VARIABLES pc, tree, doc, res, out

vars == <<pc, tree, doc, res, out>>

(***************************************************************************)
(* JSON values                                                             *)
(***************************************************************************)
JNull == [null |-> TRUE]
JBool(b) == [bool |-> b]
JInt(k) == [int |-> k]
JFlt(n) == [flt |-> n]
JStr(s) == [str |-> s]
JArr(s) == [arr |-> s]
JObj(f) == [obj |-> f]

IsNull(j) == "null" \in DOMAIN j
IsBool(j) == "bool" \in DOMAIN j
IsInt(j) == "int" \in DOMAIN j
IsFlt(j) == "flt" \in DOMAIN j
IsStr(j) == "str" \in DOMAIN j
IsArr(j) == "arr" \in DOMAIN j
IsObj(j) == "obj" \in DOMAIN j

EmptyMap == [k \in {} |-> JNull]
Keys(j) == DOMAIN j.obj
HasKey(j, k) == k \in DOMAIN j.obj
Without(f, ks) == [k \in (DOMAIN f) \ ks |-> f[k]]

(***************************************************************************)
(* Results of decoding: Ok(v) or Err(kind).  The kinds are the error       *)
(* constructors of serde::de::Error that the derived code calls.           *)
(***************************************************************************)
Ok(v) == [ok |-> v]
Err(e) == [err |-> e]
IsOk(r) == "ok" \in DOMAIN r
IsErr(r) == "err" \in DOMAIN r

MissingField == "missing field"
UnknownVariant == "unknown variant"
InvalidType == "invalid type"
InvalidValue == "invalid value"
InvalidLength == "invalid length"

(***************************************************************************)
(* The types of src/pass/standard.rs.  A struct is the sequence of its     *)
(* fields in declaration order; a field has its wire key and its type.     *)
(***************************************************************************)
F(k, t) == [key |-> k, ty |-> t]

RebaseCustom ==
  << F("basis_allowed", "vec_string"), F("basis_cx_replacement", "circuit"),
     F("basis_tk1_replacement", "string") >>
AutoRebase == << F("basis_allowed", "vec_string"), F("allow_swaps", "bool") >>
SquashCustom ==
  << F("basis_singleqs", "vec_string"), F("basis_tk1_replacement", "string"),
     F("always_squash_symbols", "bool") >>
AutoSquash == << F("basis_singleqs", "vec_string") >>
DecomposeBoxes ==
  << F("excluded_types", "vec_string"), F("excluded_opgroups", "vec_string"),
     F("included_types", "opt_vec_string"), F("included_opgroups", "opt_vec_string") >>
PeepholeOptimise2Q == << F("allow_swaps", "bool") >>
KakDecomposition ==
  << F("fidelity", "f64"), F("allow_swaps", "bool"),
     F("target_2qb_gate", "TargetTwoQubitGate") >>
ThreeQubitSquash == << F("allow_swaps", "bool") >>
FullPeepholeOptimise ==
  << F("allow_swaps", "bool"), F("target_2qb_gate", "TargetTwoQubitGate") >>
ComposePhasePolyBoxes == << F("min_size", "u32") >>
EulerAngleReduction ==
  << F("euler_p", "RotationAxis"), F("euler_q", "RotationAxis"),
     F("euler_strict", "bool") >>
RoutingPass == << F("architecture", "value"), F("routing_config", "routing_config") >>
CustomRoutingPass == << F("architecture", "value"), F("routing_config", "routing_config") >>
PlacementPass == << F("placement", "value") >>
NaivePlacementPass == << F("architecture", "value") >>
RenameQubitsPass == << F("qubit_map", "qubit_map") >>
CliffordSimp ==
  << F("allow_swaps", "bool"), F("target_2qb_gate", "TargetTwoQubitGate") >>
DecomposeSwapsToCxs == << F("architecture", "value"), F("directed", "bool") >>
DecomposeSwapsToCircuit == << F("swap_replacement", "circuit") >>
OptimisePhaseGadgets == << F("cx_config", "CxConfig") >>
PauliSynthesisConfig ==
  << F("pauli_synth_strat", "PauliSynthStrategy"), F("cx_config", "CxConfig") >>
SimplifyInitial ==
  << F("allow_classical", "bool"), F("create_all_qubits", "bool"),
     F("x_circuit", "opt_circuit") >>
FullMappingPass ==
  << F("architecture", "value"), F("placement", "value"),
     F("routing_config", "routing_config") >>
DefaultMappingPass == << F("architecture", "value"), F("delay_measures", "bool") >>
CxMappingPass ==
  << F("architecture", "value"), F("placement", "value"),
     F("routing_config", "routing_config"), F("directed", "bool"),
     F("delay_measures", "bool") >>
ContextSimp == << F("allow_classical", "bool"), F("x_circuit", "circuit") >>
DecomposeTk2 == << F("fidelities", "opt_fidelities") >>
RoundAngles == << F("n", "i64"), F("only_zeros", "bool") >>
GreedyPauliSimp ==
  << F("discount_rate", "f64"), F("depth_weight", "f64"), F("max_lookahead", "f64"),
     F("max_tqe_candidates", "f64"), F("seed", "f64"), F("allow_zzphase", "bool"),
     F("thread_timeout", "f64"), F("only_reduce", "bool"), F("trials", "f64") >>
DelayMeasures == << F("allow_partial", "bool") >>
FlattenRelabelRegistersPass ==
  << F("label", "string"), F("relabel_classical_registers", "bool") >>
DecomposeTk2Fidelities ==
  << F("CX", "opt_f64"), F("ZZMax", "opt_f64"), F("ZZPhase", "opt_f64") >>
RoutingMethod == << F("name", "string") >>

RotationAxis == {"Rx", "Ry", "Rz"}
TargetTwoQubitGate == {"CX", "TK2"}
CxConfig == {"Snake", "Tree", "Star"}
PauliSynthStrategy == {"Individual", "Pairwise", "Sets"}

EnumVariants(t) ==
  CASE t = "RotationAxis" -> RotationAxis
    [] t = "TargetTwoQubitGate" -> TargetTwoQubitGate
    [] t = "CxConfig" -> CxConfig
    [] t = "PauliSynthStrategy" -> PauliSynthStrategy
    [] OTHER -> {}

EnumTypes == {"RotationAxis", "TargetTwoQubitGate", "CxConfig", "PauliSynthStrategy"}
OptionTypes == {"opt_vec_string", "opt_circuit", "opt_fidelities", "opt_f64"}

\* The type inside an Option type.
Inner(t) ==
  CASE t = "opt_vec_string" -> "vec_string"
    [] t = "opt_circuit" -> "circuit"
    [] t = "opt_fidelities" -> "fidelities"
    [] t = "opt_f64" -> "f64"
    [] OTHER -> t

\* The variants of StandardPass without data.
UnitVariants ==
  { "RebaseCustomViaTK2", "CommuteThroughMultis", "DecomposeArbitrarilyControlledGates",
    "DecomposeMultiQubitsCX", "DecomposeSingleQubitsTK1", "RebaseTket", "RebaseUFR",
    "RemoveRedundancies", "SynthesiseTK", "SynthesiseTket", "SynthesiseOQC", "SquashTK1",
    "SquashRzPhasedX", "FlattenRegisters", "ZZPhaseToRz", "RemoveDiscarded",
    "SimplifyMeasured", "RemoveBarriers", "RemovePhaseOps", "DecomposeBridges",
    "OptimisePairwiseGadgets", "CnXPairwiseDecomposition",
    "RemoveImplicitQubitPermutation", "NormaliseTK2", "RxFromSX" }

\* The variants of StandardPass around a struct (newtype variants).
NewtypeVariants ==
  { "RebaseCustom", "AutoRebase", "SquashCustom", "AutoSquash", "DecomposeBoxes",
    "PeepholeOptimise2Q", "DelayMeasures", "KAKDecomposition", "ThreeQubitSquash",
    "FullPeepholeOptimise", "ComposePhasePolyBoxes", "EulerAngleReduction",
    "RoutingPass", "CustomRoutingPass", "PlacementPass", "NaivePlacementPass",
    "RenameQubitsPass", "CliffordSimp", "DecomposeSwapsToCXs", "DecomposeSwapsToCircuit",
    "OptimisePhaseGadgets", "PauliSimp", "PauliExponentials", "GuidedPauliSimp",
    "SimplifyInitial", "FullMappingPass", "DefaultMappingPass", "CXMappingPass",
    "PauliSquash", "ContextSimp", "DecomposeTK2", "RoundAngles", "GreedyPauliSimp",
    "FlattenRelabelRegistersPass" }

\* The wire tags of StandardPass.
StandardPassNames == UnitVariants \cup NewtypeVariants

\* The struct a newtype variant of StandardPass wraps, by wire tag.
StructOf(name) ==
  CASE name = "RebaseCustom" -> RebaseCustom
    [] name = "AutoRebase" -> AutoRebase
    [] name = "SquashCustom" -> SquashCustom
    [] name = "AutoSquash" -> AutoSquash
    [] name = "DecomposeBoxes" -> DecomposeBoxes
    [] name = "PeepholeOptimise2Q" -> PeepholeOptimise2Q
    [] name = "DelayMeasures" -> DelayMeasures
    [] name = "KAKDecomposition" -> KakDecomposition
    [] name = "ThreeQubitSquash" -> ThreeQubitSquash
    [] name = "FullPeepholeOptimise" -> FullPeepholeOptimise
    [] name = "ComposePhasePolyBoxes" -> ComposePhasePolyBoxes
    [] name = "EulerAngleReduction" -> EulerAngleReduction
    [] name = "RoutingPass" -> RoutingPass
    [] name = "CustomRoutingPass" -> CustomRoutingPass
    [] name = "PlacementPass" -> PlacementPass
    [] name = "NaivePlacementPass" -> NaivePlacementPass
    [] name = "RenameQubitsPass" -> RenameQubitsPass
    [] name = "CliffordSimp" -> CliffordSimp
    [] name = "DecomposeSwapsToCXs" -> DecomposeSwapsToCxs
    [] name = "DecomposeSwapsToCircuit" -> DecomposeSwapsToCircuit
    [] name = "OptimisePhaseGadgets" -> OptimisePhaseGadgets
    [] name \in {"PauliSimp", "PauliExponentials", "GuidedPauliSimp", "PauliSquash"}
         -> PauliSynthesisConfig
    [] name = "SimplifyInitial" -> SimplifyInitial
    [] name = "FullMappingPass" -> FullMappingPass
    [] name = "DefaultMappingPass" -> DefaultMappingPass
    [] name = "CXMappingPass" -> CxMappingPass
    [] name = "ContextSimp" -> ContextSimp
    [] name = "DecomposeTK2" -> DecomposeTk2
    [] name = "RoundAngles" -> RoundAngles
    [] name = "GreedyPauliSimp" -> GreedyPauliSimp
    [] name = "FlattenRelabelRegistersPass" -> FlattenRelabelRegistersPass
    [] OTHER -> << >>

\* The variants of BasePass; each is also the key of its payload.
PassClasses ==
  { "StandardPass", "SequencePass", "RepeatPass", "RepeatWithMetricPass",
    "RepeatUntilSatisfiedPass" }

FieldKeys(fields) == { fields[i].key : i \in 1..Len(fields) }

BasePassFields(c) ==
  CASE c = "SequencePass" -> << F("sequence", "vec_base_pass") >>
    [] c = "RepeatPass" -> << F("body", "base_pass") >>
    [] c = "RepeatWithMetricPass" -> << F("body", "base_pass"), F("metric", "string") >>
    [] c = "RepeatUntilSatisfiedPass" -> << F("body", "base_pass"), F("predicate", "value") >>
    [] OTHER -> << >>

(***************************************************************************)
(* Types of the crate that the pass types embed: SerialCircuit and         *)
(* ElementId.  Both are opaque here: a value is a token and its document   *)
(* carries the token.                                                      *)
(***************************************************************************)
EncodeCircuit(c) == JObj("circuit" :> JStr(c))
DecodeCircuit(j) ==
  IF IsObj(j) /\ Keys(j) = {"circuit"} /\ IsStr(j.obj["circuit"])
    THEN Ok([circuit |-> j.obj["circuit"].str])
    ELSE Err(InvalidType)
EncodeElementId(e) == JStr(e)
DecodeElementId(j) == IF IsStr(j) THEN Ok(j.str) ELSE Err(InvalidType)

(***************************************************************************)
(* Helpers over sequences of results.                                      *)
(***************************************************************************)
FirstErr(rs) ==
  rs[CHOOSE i \in 1..Len(rs) : IsErr(rs[i]) /\ \A j \in 1..(i - 1) : IsOk(rs[j])]
AnyErr(rs) == \E i \in 1..Len(rs) : IsErr(rs[i])
\* Mutant: the elements are collected in reverse order.
Collect_Reversed(rs) == [i \in 1..Len(rs) |-> rs[Len(rs) + 1 - i].ok]
Collect(rs) == [i \in 1..Len(rs) |-> rs[i].ok]

(***************************************************************************)
(* Encoding (derived Serialize).                                           *)
(***************************************************************************)
\* Mutant: a whole-number f64 is narrowed to a JSON integer.
EncodeF64_NarrowWhole(v) ==
  IF "f64" \in DOMAIN v
    THEN IF v.f64 % 2 = 0 THEN JInt(v.f64 \div 2) ELSE JFlt(v.f64)
    ELSE JNull

\* serde_json writes a non-finite f64 as null.
EncodeF64(v) == IF "f64" \in DOMAIN v THEN JFlt(v.f64) ELSE JNull

\* A field is skipped when it is an Option holding None
\* (skip_serializing_if = "Option::is_none" on every Option field).
Skipped(v) == "none" \in DOMAIN v

Unwrap(v) == IF "some" \in DOMAIN v THEN v.some ELSE v

RECURSIVE EncodeValue(_, _), EncodeStruct(_, _), EncodeBasePass(_)

\* Mutant: a None field is written as an explicit null (no skip_serializing_if).
EncodeStruct_NullForNone(fields, fv) ==
  LET tyOf(k) == fields[CHOOSE i \in 1..Len(fields) : fields[i].key = k].ty
  IN  JObj([k \in FieldKeys(fields) |->
              IF Skipped(fv[k]) THEN JNull
              ELSE EncodeValue(Inner(tyOf(k)), Unwrap(fv[k]))])

\* A struct: one key per field that is not skipped, in a JSON object.
EncodeStruct(fields, fv) ==
  LET present == { i \in 1..Len(fields) : ~Skipped(fv[fields[i].key]) }
      tyOf(k) == fields[CHOOSE i \in present : fields[i].key = k].ty
  IN  JObj([k \in { fields[i].key : i \in present } |->
              EncodeValue(Inner(tyOf(k)), Unwrap(fv[k]))])

EncodeValue(t, v) ==
  CASE t = "bool" -> JBool(v.bool)
    [] t = "f64" -> EncodeF64(v)
    [] t = "u32" -> JInt(v.u32)
    [] t = "i64" -> JInt(v.i64)
    [] t = "string" -> JStr(v.string)
    [] t = "vec_string" -> JArr([i \in 1..Len(v.vec) |-> JStr(v.vec[i])])
    [] t \in EnumTypes -> JStr(v.enum)
    [] t = "value" -> v.value
    [] t = "circuit" -> EncodeCircuit(v.circuit)
    [] t = "routing_config" ->
         JArr([i \in 1..Len(v.routing) |-> EncodeStruct(RoutingMethod, v.routing[i])])
    [] t = "qubit_map" ->
         JArr([i \in 1..Len(v.qubit_map) |->
                 JArr(<< EncodeElementId(v.qubit_map[i][1]),
                         EncodeElementId(v.qubit_map[i][2]) >>)])
    [] t = "fidelities" -> EncodeStruct(DecomposeTk2Fidelities, v.fidelities)
    [] t = "base_pass" -> EncodeBasePass(v.boxed)
    [] t = "vec_base_pass" ->
         JArr([i \in 1..Len(v.passes) |-> EncodeBasePass(v.passes[i])])

\* Mutant: the fields are nested under a key named after the variant.
EncodeStandardPass_Nested(sp) ==
  IF sp.name \in UnitVariants
    THEN JObj("name" :> JStr(sp.name))
    ELSE JObj(("name" :> JStr(sp.name))
                @@ (sp.name :> EncodeStruct(StructOf(sp.name), sp.fields)))
\* StandardPass, tag = "name": the tag and the variant's fields in one object.
EncodeStandardPass(sp) ==
  IF sp.name \in UnitVariants
    THEN JObj("name" :> JStr(sp.name))
    ELSE JObj(("name" :> JStr(sp.name)) @@ EncodeStruct(StructOf(sp.name), sp.fields).obj)

\* Mutant: the field keeps its Rust name `pass` (no rename).
EncodeBasePass_NoRename(p) ==
  LET payload == IF p.pass_class = "StandardPass"
                   THEN EncodeStandardPass(p.pass)
                   ELSE EncodeStruct(BasePassFields(p.pass_class), p.pass)
  IN  JObj(("pass_class" :> JStr(p.pass_class)) @@ ("pass" :> payload))

\* Mutant: externally tagged only, the `pass_class` key is not written.
EncodeBasePass_ExternalOnly(p) ==
  LET payload == IF p.pass_class = "StandardPass"
                   THEN EncodeStandardPass(p.pass)
                   ELSE EncodeStruct(BasePassFields(p.pass_class), p.pass)
  IN  JObj(p.pass_class :> payload)

\* BasePass, tag = "pass_class": the tag and the single field of the struct
\* variant, renamed to the variant's name.
EncodeBasePass(p) ==
  LET payload == IF p.pass_class = "StandardPass"
                   THEN EncodeStandardPass(p.pass)
                   ELSE EncodeStruct(BasePassFields(p.pass_class), p.pass)
  IN  JObj(("pass_class" :> JStr(p.pass_class)) @@ (p.pass_class :> payload))

(***************************************************************************)
(* Decoding (derived Deserialize).                                         *)
(*                                                                         *)
(* A struct is read from a JSON object or, field by field in declaration   *)
(* order, from a JSON array.  Inputs never place a JSON array where a      *)
(* tagged enum is expected, nor a JSON object where a unit-only enum is    *)
(* expected, so the sequence form of tagged enums and the map form of      *)
(* unit-only enums are not modelled.                                       *)
(* Among several faulty fields of one struct, the fault of the first field *)
(* in declaration order is the one reported.                               *)
(***************************************************************************)
RECURSIVE DecodeValue(_, _), DecodeStruct(_, _), DecodeBasePass(_)

\* Mutant: an element that does not decode is left out of the sequence.
DecodeVecBasePass_SkipBad(j) ==
  IF ~IsArr(j) THEN Err(InvalidType)
  ELSE LET rs == [i \in 1..Len(j.arr) |-> DecodeBasePass(j.arr[i])]
       IN  Ok([passes |-> Collect(SelectSeq(rs, IsOk))])
\* Vec<BasePass>: every element of the array is decoded, in order; the
\* first element that fails ends decoding with its error.
DecodeVecBasePass(j) ==
  IF ~IsArr(j) THEN Err(InvalidType)
  ELSE LET rs == [i \in 1..Len(j.arr) |-> DecodeBasePass(j.arr[i])]
       IN  IF AnyErr(rs) THEN FirstErr(rs) ELSE Ok([passes |-> Collect(rs)])

\* Option<T>: null is None, anything else is Some(T).
DecodeOption(t, j) ==
  IF IsNull(j) THEN Ok([none |-> TRUE])
  ELSE LET r == DecodeValue(Inner(t), j) IN IF IsOk(r) THEN Ok([some |-> r.ok]) ELSE r

\* A struct from a JSON array (visit_seq): element i is field i; an array
\* that is too short or too long is an invalid length.
DecodeStructSeq(fields, a) ==
  LET n == Len(fields)
      rs == [i \in 1..n |->
               IF i <= Len(a) THEN DecodeValue(fields[i].ty, a[i]) ELSE Err(InvalidLength)]
      idx(k) == CHOOSE i \in 1..n : fields[i].key = k
  IN  IF AnyErr(rs) THEN FirstErr(rs)
      ELSE IF Len(a) > n THEN Err(InvalidLength)
      ELSE Ok([k \in FieldKeys(fields) |-> rs[idx(k)].ok])

\* A struct from a JSON object: every present field is decoded, keys that
\* are not fields are ignored, then every absent field is a missing field
\* unless it is an Option (None).
DecodeStruct(fields, j) ==
  IF IsArr(j) THEN DecodeStructSeq(fields, j.arr)
  ELSE IF ~IsObj(j) THEN Err(InvalidType)
  ELSE
    LET n == Len(fields)
        present == [i \in 1..n |->
                      IF HasKey(j, fields[i].key)
                        THEN DecodeValue(fields[i].ty, j.obj[fields[i].key])
                        ELSE Ok([none |-> TRUE])]
        absent == [i \in 1..n |->
                     IF HasKey(j, fields[i].key) \/ fields[i].ty \in OptionTypes
                       THEN Ok(TRUE) ELSE Err(MissingField)]
        idx(k) == CHOOSE i \in 1..n : fields[i].key = k
    IN  IF AnyErr(present) THEN FirstErr(present)
        ELSE IF AnyErr(absent) THEN FirstErr(absent)
        ELSE Ok([k \in FieldKeys(fields) |-> present[idx(k)].ok])

\* Mutant: the blob is validated, only a JSON object is accepted.
DecodeOpaque_ObjectOnly(j) == IF IsObj(j) THEN Ok([value |-> j]) ELSE Err(InvalidType)
\* Architecture, Placement, Predicate = serde_json::Value: any JSON value,
\* stored as it is.
DecodeOpaque(j) == Ok([value |-> j])

DecodeF64(j) ==
  IF IsFlt(j) THEN Ok([f64 |-> j.flt])
  ELSE IF IsInt(j) THEN Ok([f64 |-> 2 * j.int])
  ELSE Err(InvalidType)

DecodeValue(t, j) ==
  CASE t \in OptionTypes -> DecodeOption(t, j)
    [] t = "bool" -> IF IsBool(j) THEN Ok([bool |-> j.bool]) ELSE Err(InvalidType)
    [] t = "f64" -> DecodeF64(j)
    [] t = "u32" ->
         IF ~IsInt(j) THEN Err(InvalidType)
         ELSE IF j.int < 0 THEN Err(InvalidValue) ELSE Ok([u32 |-> j.int])
    [] t = "i64" -> IF IsInt(j) THEN Ok([i64 |-> j.int]) ELSE Err(InvalidType)
    [] t = "string" -> IF IsStr(j) THEN Ok([string |-> j.str]) ELSE Err(InvalidType)
    [] t = "vec_string" ->
         IF IsArr(j) /\ \A i \in 1..Len(j.arr) : IsStr(j.arr[i])
           THEN Ok([vec |-> [i \in 1..Len(j.arr) |-> j.arr[i].str]])
           ELSE Err(InvalidType)
    [] t \in EnumTypes ->
         IF ~IsStr(j) THEN Err(InvalidType)
         ELSE IF j.str \in EnumVariants(t) THEN Ok([enum |-> j.str])
         ELSE Err(UnknownVariant)
    [] t = "value" -> DecodeOpaque(j)
    [] t = "circuit" -> DecodeCircuit(j)
    [] t = "routing_config" ->
         IF ~IsArr(j) THEN Err(InvalidType)
         ELSE LET rs == [i \in 1..Len(j.arr) |-> DecodeStruct(RoutingMethod, j.arr[i])]
              IN  IF AnyErr(rs) THEN FirstErr(rs) ELSE Ok([routing |-> Collect(rs)])
    [] t = "qubit_map" ->
         IF ~IsArr(j) THEN Err(InvalidType)
         ELSE LET pair(e) ==
                    IF ~IsArr(e) THEN Err(InvalidType)
                    ELSE IF Len(e.arr) # 2 THEN Err(InvalidLength)
                    ELSE LET a == DecodeElementId(e.arr[1])
                             b == DecodeElementId(e.arr[2])
                         IN  IF IsErr(a) THEN a ELSE IF IsErr(b) THEN b
                             ELSE Ok(<< a.ok, b.ok >>)
                  rs == [i \in 1..Len(j.arr) |-> pair(j.arr[i])]
              IN  IF AnyErr(rs) THEN FirstErr(rs) ELSE Ok([qubit_map |-> Collect(rs)])
    [] t = "fidelities" ->
         LET r == DecodeStruct(DecomposeTk2Fidelities, j)
         IN  IF IsOk(r) THEN Ok([fidelities |-> r.ok]) ELSE r
    [] t = "base_pass" ->
         LET r == DecodeBasePass(j) IN IF IsOk(r) THEN Ok([boxed |-> r.ok]) ELSE r
    [] t = "vec_base_pass" -> DecodeVecBasePass(j)

\* Mutant: any string is taken as a variant name.
DecodeTag_AcceptAny(j, tag, variants) ==
  IF ~IsObj(j) THEN Err(InvalidType)
  ELSE IF ~HasKey(j, tag) THEN Err(MissingField)
  ELSE IF ~IsStr(j.obj[tag]) THEN Err(InvalidType)
  ELSE Ok(j.obj[tag].str)

\* The tag of an internally tagged enum: the value under the tag key must
\* be the name of a variant.
DecodeTag(j, tag, variants) ==
  IF ~IsObj(j) THEN Err(InvalidType)
  ELSE IF ~HasKey(j, tag) THEN Err(MissingField)
  ELSE IF ~IsStr(j.obj[tag]) THEN Err(InvalidType)
  ELSE IF j.obj[tag].str \notin variants THEN Err(UnknownVariant)
  ELSE Ok(j.obj[tag].str)

\* Mutant: a name that is no variant decodes into a catch-all placeholder
\* that keeps the raw name and the raw fields.
DecodeStandardPass_CatchAll(j) ==
  LET t == DecodeTag(j, "name", StandardPassNames)
  IN  IF IsErr(t)
        THEN IF t.err = UnknownVariant
               THEN Ok([name |-> j.obj["name"].str, fields |-> Without(j.obj, {"name"})])
               ELSE t
      ELSE IF t.ok \in UnitVariants THEN Ok([name |-> t.ok, fields |-> << >>])
      ELSE LET r == DecodeStruct(StructOf(t.ok), JObj(Without(j.obj, {"name"})))
           IN  IF IsOk(r) THEN Ok([name |-> t.ok, fields |-> r.ok]) ELSE r

\* Mutant: keys that are not fields of the variant are rejected
\* (deny_unknown_fields).
DecodeStandardPass_DenyUnknown(j) ==
  LET t == DecodeTag(j, "name", StandardPassNames)
  IN  IF IsErr(t) THEN t
      ELSE IF t.ok \in UnitVariants
        THEN IF Keys(j) # {"name"} THEN Err("unknown field")
             ELSE Ok([name |-> t.ok, fields |-> << >>])
      ELSE IF Keys(j) \ ({"name"} \cup FieldKeys(StructOf(t.ok))) # {}
        THEN Err("unknown field")
      ELSE LET r == DecodeStruct(StructOf(t.ok), JObj(Without(j.obj, {"name"})))
           IN  IF IsOk(r) THEN Ok([name |-> t.ok, fields |-> r.ok]) ELSE r

\* StandardPass: the variant is chosen by "name"; a unit variant ignores the
\* rest of the object, a newtype variant decodes its struct from the rest.
DecodeStandardPass(j) ==
  LET t == DecodeTag(j, "name", StandardPassNames)
  IN  IF IsErr(t) THEN t
      ELSE IF t.ok \in UnitVariants THEN Ok([name |-> t.ok, fields |-> << >>])
      ELSE LET r == DecodeStruct(StructOf(t.ok), JObj(Without(j.obj, {"name"})))
           IN  IF IsOk(r) THEN Ok([name |-> t.ok, fields |-> r.ok]) ELSE r

\* Mutant: keys other than the tag and the payload are rejected
\* (deny_unknown_fields).
DecodeBasePass_DenyUnknown(j) ==
  LET t == DecodeTag(j, "pass_class", PassClasses)
  IN  IF IsErr(t) THEN t
      ELSE IF Keys(j) \ {"pass_class", t.ok} # {} THEN Err("unknown field")
      ELSE IF ~HasKey(j, t.ok) THEN Err(MissingField)
      ELSE LET r == IF t.ok = "StandardPass"
                      THEN DecodeStandardPass(j.obj[t.ok])
                      ELSE DecodeStruct(BasePassFields(t.ok), j.obj[t.ok])
           IN  IF IsOk(r) THEN Ok([pass_class |-> t.ok, pass |-> r.ok]) ELSE r

\* Mutant: when the key named like the variant is absent, the payload is
\* taken from another key of the object.
DecodeBasePass_FallbackKey(j) ==
  LET t == DecodeTag(j, "pass_class", PassClasses)
  IN  IF IsErr(t) THEN t
      ELSE IF ~HasKey(j, t.ok) /\ Keys(j) = {"pass_class"} THEN Err(MissingField)
      ELSE LET key == IF HasKey(j, t.ok) THEN t.ok
                      ELSE CHOOSE k \in Keys(j) \ {"pass_class"} : TRUE
               r == IF t.ok = "StandardPass"
                      THEN DecodeStandardPass(j.obj[key])
                      ELSE DecodeStruct(BasePassFields(t.ok), j.obj[key])
           IN  IF IsOk(r) THEN Ok([pass_class |-> t.ok, pass |-> r.ok]) ELSE r

\* BasePass: the variant is chosen by "pass_class"; its one field is read
\* from the key named like the variant; any other key is ignored.
DecodeBasePass(j) ==
  LET t == DecodeTag(j, "pass_class", PassClasses)
  IN  IF IsErr(t) THEN t
      ELSE IF ~HasKey(j, t.ok) THEN Err(MissingField)
      ELSE LET r == IF t.ok = "StandardPass"
                      THEN DecodeStandardPass(j.obj[t.ok])
                      ELSE DecodeStruct(BasePassFields(t.ok), j.obj[t.ok])
           IN  IF IsOk(r) THEN Ok([pass_class |-> t.ok, pass |-> r.ok]) ELSE r

(***************************************************************************)
(* Bounds of the inputs.                                                   *)
(***************************************************************************)
\* Finite f64 values are 1/2, 2/2, .., MaxF64/2.
MaxF64 == 2
\* Longest list of a list-valued field.
MaxVecLen == 2
\* Most fields of one struct that differ from the struct's base value.
MaxDev == 1
\* Deepest nesting of Sequence / Repeat* nodes around a leaf.
MaxNest == 2

Strings == {"m1", "m2"}
GateNames == {"CX", "Rz"}
Circuits == {"c1", "c2"}
ElementIds == {"q0", "q1"}
Blobs == { JNull, JObj("type" :> JStr("NoMidMeasurePredicate")),
           JArr(<< JInt(1), JFlt(2), JInt(1) >>) }

\* All sequences over S of length at most n.
SeqsUpTo(S, n) == UNION { [1..m -> S] : m \in 0..n }

(***************************************************************************)
(* Pass trees: the typed values a caller can construct.                    *)
(***************************************************************************)
RECURSIVE Samples(_), Base(_), Assignments(_, _)

\* The value every field of type t takes unless it deviates.
Base(t) ==
  CASE t = "bool" -> [bool |-> TRUE]
    [] t = "f64" -> [f64 |-> 1]
    [] t = "u32" -> [u32 |-> 0]
    [] t = "i64" -> [i64 |-> 0]
    [] t = "string" -> [string |-> "m1"]
    [] t = "vec_string" -> [vec |-> << "CX" >>]
    [] t = "RotationAxis" -> [enum |-> "Rx"]
    [] t = "TargetTwoQubitGate" -> [enum |-> "CX"]
    [] t = "CxConfig" -> [enum |-> "Snake"]
    [] t = "PauliSynthStrategy" -> [enum |-> "Individual"]
    [] t = "value" -> [value |-> JObj("type" :> JStr("NoMidMeasurePredicate"))]
    [] t = "circuit" -> [circuit |-> "c1"]
    [] t = "routing_config" -> [routing |-> << [name |-> [string |-> "m1"]] >>]
    [] t = "qubit_map" -> [qubit_map |-> << << "q0", "q1" >> >>]
    [] t = "fidelities" ->
         [fidelities |-> [k \in FieldKeys(DecomposeTk2Fidelities) |-> [none |-> TRUE]]]
    [] t \in OptionTypes -> [none |-> TRUE]

\* The values of type t the inputs draw from.
Samples(t) ==
  CASE t = "bool" -> { [bool |-> b] : b \in BOOLEAN }
    [] t = "f64" -> { [f64 |-> n] : n \in 1..MaxF64 } \cup { [f64_nonfinite |-> "NaN"] }
    [] t = "u32" -> { [u32 |-> n] : n \in 0..1 }
    [] t = "i64" -> { [i64 |-> n] : n \in -1..1 }
    [] t = "string" -> { [string |-> x] : x \in Strings }
    [] t = "vec_string" -> { [vec |-> x] : x \in SeqsUpTo(GateNames, MaxVecLen) }
    [] t \in EnumTypes -> { [enum |-> x] : x \in EnumVariants(t) }
    [] t = "value" -> { [value |-> j] : j \in Blobs }
    [] t = "circuit" -> { [circuit |-> c] : c \in Circuits }
    [] t = "routing_config" ->
         { [routing |-> x] :
             x \in SeqsUpTo({ [name |-> [string |-> m]] : m \in Strings }, MaxVecLen) }
    [] t = "qubit_map" ->
         { [qubit_map |-> x] :
             x \in SeqsUpTo({ << "q0", "q1" >>, << "q1", "q0" >> }, MaxVecLen) }
    [] t = "fidelities" ->
         { [fidelities |-> a] : a \in Assignments(DecomposeTk2Fidelities, MaxDev) }
    [] t \in OptionTypes -> { [none |-> TRUE] } \cup { [some |-> v] : v \in Samples(Inner(t)) }

\* The values of a struct with at most k fields away from their base value.
Assignments(fields, k) ==
  IF fields = << >> THEN { << >> }
  ELSE LET f == Head(fields)
           keep == { (f.key :> Base(f.ty)) @@ a : a \in Assignments(Tail(fields), k) }
           dev == IF k = 0 THEN {}
                  ELSE { (f.key :> v) @@ a :
                           v \in Samples(f.ty) \ { Base(f.ty) },
                           a \in Assignments(Tail(fields), k - 1) }
       IN  keep \cup dev

Standard(sp) == [pass_class |-> "StandardPass", pass |-> sp]
Sequence(s) == [pass_class |-> "SequencePass", pass |-> [sequence |-> [passes |-> s]]]
Repeat(b) == [pass_class |-> "RepeatPass", pass |-> [body |-> [boxed |-> b]]]
RepeatWithMetric(b, m) ==
  [pass_class |-> "RepeatWithMetricPass",
   pass |-> [body |-> [boxed |-> b], metric |-> [string |-> m]]]
RepeatUntilSatisfied(b, p) ==
  [pass_class |-> "RepeatUntilSatisfiedPass",
   pass |-> [body |-> [boxed |-> b], predicate |-> [value |-> p]]]

\* Every leaf: each StandardPass variant with each of its sampled values.
LeafTrees ==
  { Standard([name |-> n, fields |-> << >>]) : n \in UnitVariants }
  \cup UNION { { Standard([name |-> n, fields |-> a]) :
                   a \in Assignments(StructOf(n), MaxDev) } : n \in NewtypeVariants }

\* The leaves that nested trees are built from.
NestLeafTrees ==
  { Standard([name |-> "RemoveRedundancies", fields |-> << >>]),
    Standard([name |-> "CliffordSimp",
              fields |-> [allow_swaps |-> [bool |-> TRUE],
                          target_2qb_gate |-> [enum |-> "CX"]]]),
    Standard([name |-> "DecomposeTK2", fields |-> [fidelities |-> [none |-> TRUE]]]),
    Standard([name |-> "KAKDecomposition",
              fields |-> [fidelity |-> [f64_nonfinite |-> "NaN"],
                          allow_swaps |-> [bool |-> FALSE],
                          target_2qb_gate |-> [enum |-> "TK2"]]]) }

\* The trees that wrap the leaf b once.
WrapsOf(b) ==
  { Repeat(b), Sequence(<< >>), Sequence(<< b >>), Sequence(<< b, b >>) }
  \cup { RepeatWithMetric(b, m) : m \in Strings }
  \cup { RepeatUntilSatisfied(b, p) : p \in Blobs }
  \cup UNION { { Sequence(<< l, b >>), Sequence(<< b, l >>) } : l \in NestLeafTrees }

\* The trees that wrap an already nested tree b once.
OuterWrapsOf(b) ==
  { Repeat(b), Sequence(<< b, b >>),
    Sequence(<< Standard([name |-> "RemoveRedundancies", fields |-> << >>]), b >>) }

RECURSIVE NestedTrees(_)
\* Trees nested at most k deep.
NestedTrees(k) ==
  IF k = 0 THEN NestLeafTrees
  ELSE IF k = 1 THEN NestLeafTrees \cup UNION { WrapsOf(b) : b \in NestLeafTrees }
  ELSE NestedTrees(k - 1) \cup UNION { OuterWrapsOf(b) : b \in NestedTrees(k - 1) }

Trees == LeafTrees \cup NestedTrees(MaxNest)

(***************************************************************************)
(* Documents: the JSON values a caller can hand to decode.  They are built *)
(* from JSON constructors, not by the encoder, and include faulty ones.    *)
(***************************************************************************)
Absent == [absent |-> TRUE]

RECURSIVE JGood(_), JBase(_), DocAssignments(_, _)

\* The JSON value a field of type t holds unless it deviates; an Option
\* field is absent.
JBase(t) ==
  CASE t = "bool" -> JBool(TRUE)
    [] t = "f64" -> JFlt(1)
    [] t = "u32" -> JInt(0)
    [] t = "i64" -> JInt(0)
    [] t = "string" -> JStr("m1")
    [] t = "vec_string" -> JArr(<< JStr("CX") >>)
    [] t = "RotationAxis" -> JStr("Rx")
    [] t = "TargetTwoQubitGate" -> JStr("CX")
    [] t = "CxConfig" -> JStr("Snake")
    [] t = "PauliSynthStrategy" -> JStr("Individual")
    [] t = "value" -> JObj("type" :> JStr("NoMidMeasurePredicate"))
    [] t = "circuit" -> EncodeCircuit("c1")
    [] t = "routing_config" -> JArr(<< JObj("name" :> JStr("m1")) >>)
    [] t = "qubit_map" -> JArr(<< JArr(<< JStr("q0"), JStr("q1") >>) >>)
    [] t = "fidelities" -> JObj(EmptyMap)
    [] t \in OptionTypes -> Absent

\* The JSON values of the wire shape of type t.
JGood(t) ==
  CASE t = "bool" -> { JBool(b) : b \in BOOLEAN }
    [] t = "f64" -> { JFlt(n) : n \in 1..MaxF64 } \cup { JInt(1) }
    [] t = "u32" -> { JInt(n) : n \in 0..1 }
    [] t = "i64" -> { JInt(n) : n \in -1..1 }
    [] t = "string" -> { JStr(x) : x \in Strings }
    [] t = "vec_string" ->
         { JArr(x) : x \in SeqsUpTo({ JStr(g) : g \in GateNames }, MaxVecLen) }
    [] t \in EnumTypes -> { JStr(x) : x \in EnumVariants(t) }
    [] t = "value" -> Blobs
    [] t = "circuit" -> { EncodeCircuit(c) : c \in Circuits }
    [] t = "routing_config" ->
         { JArr(x) : x \in SeqsUpTo({ JObj("name" :> JStr(m)) : m \in Strings }, MaxVecLen) }
    [] t = "qubit_map" ->
         { JArr(x) : x \in SeqsUpTo({ JArr(<< JStr("q0"), JStr("q1") >>),
                                      JArr(<< JStr("q1"), JStr("q0") >>) }, MaxVecLen) }
    [] t = "fidelities" ->
         { JObj(a) : a \in DocAssignments(DecomposeTk2Fidelities, MaxDev) }
    [] t \in OptionTypes -> { Absent } \cup JGood(Inner(t))

\* JSON values that are not of the wire shape of type t.
JBad(t) ==
  CASE t = "value" -> {}
    [] t \in {"f64", "opt_f64"} -> { JNull, JStr("1.0") }
    [] t = "u32" -> { JNull, JInt(-1), JFlt(2) }
    [] t = "i64" -> { JNull, JFlt(2) }
    [] t \in EnumTypes -> { JNull, JStr("Bogus"), JInt(7) }
    [] t \in {"vec_string", "opt_vec_string"} -> { JNull, JStr("CX"), JArr(<< JInt(7) >>) }
    [] t = "qubit_map" -> { JNull, JArr(<< JArr(<< JStr("q0") >>) >>) }
    [] t = "routing_config" -> { JNull, JArr(<< JObj(EmptyMap) >>) }
    [] OTHER -> { JNull, JInt(7) }

\* The key/value maps for a struct with at most k fields away from base.
DocAssignments(fields, k) ==
  IF fields = << >> THEN { EmptyMap }
  ELSE LET f == Head(fields)
           put(v, a) == IF v = Absent THEN a ELSE (f.key :> v) @@ a
           keep == { put(JBase(f.ty), a) : a \in DocAssignments(Tail(fields), k) }
           dev == IF k = 0 THEN {}
                  ELSE { put(v, a) :
                           v \in (JGood(f.ty) \cup JBad(f.ty)) \ { JBase(f.ty) },
                           a \in DocAssignments(Tail(fields), k - 1) }
       IN  keep \cup dev

WithExtra(f) == ("extra" :> JInt(1)) @@ f

\* StandardPass payloads: every variant, with deviating, faulty, missing
\* and unexpected fields, and payloads whose name is no variant.
PayloadDocs ==
  { JObj("name" :> JStr(n)) : n \in UnitVariants }
  \cup { JObj(WithExtra("name" :> JStr(n))) : n \in UnitVariants }
  \cup UNION { { JObj(("name" :> JStr(n)) @@ a) :
                   a \in DocAssignments(StructOf(n), MaxDev) } : n \in NewtypeVariants }
  \cup UNION { { JObj(WithExtra(("name" :> JStr(n)) @@ a)) :
                   a \in DocAssignments(StructOf(n), MaxDev - 1) } : n \in NewtypeVariants }
  \cup { JObj(("name" :> JStr("SomeFuturePass")) @@ ("x" :> JInt(1))),
         JObj("name" :> JStr("SomeFuturePass")),
         JObj("name" :> JStr("cliffordsimp")),
         JObj("x" :> JInt(1)),
         JObj(("name" :> JInt(7)) @@ ("allow_swaps" :> JBool(TRUE))),
         JStr("RemoveRedundancies") }

\* A Pass node of the wire shape.
Node(c, payload) == JObj(("pass_class" :> JStr(c)) @@ (c :> payload))

\* Pass nodes for class c that depart from the wire shape at the node itself.
FaultyNodes(c, payload) ==
  { JObj(WithExtra(Node(c, payload).obj)),
    JObj(("pass_class" :> JStr(c)) @@ ("pass" :> payload)),
    JObj(("pass_class" :> JStr("FuturePass")) @@ ("FuturePass" :> payload)),
    JObj(("pass_class" :> JStr("FuturePass")) @@ (c :> payload)),
    JObj(("pass_class" :> JInt(7)) @@ (c :> payload)),
    JObj(("pass_class" :> JNull) @@ (c :> payload)),
    JObj(c :> payload),
    JObj("pass_class" :> JStr(c)),
    JObj(("pass_class" :> JStr(c)) @@ (c :> JStr("payload"))) }
  \cup { JObj(Node(c, payload).obj @@ (c2 :> payload)) : c2 \in PassClasses \ {c} }
  \cup { JObj(("pass_class" :> JStr(c)) @@ (c2 :> payload)) : c2 \in PassClasses \ {c} }
  \cup (IF c = "SequencePass"
          THEN { JObj(("pass_class" :> JStr(c)) @@ ("sequence" :> payload)),
                 JObj(("pass_class" :> JStr(c)) @@ payload.obj) }
          ELSE {})

\* The leaf payloads that nested documents are built from.
NestLeafPayloads ==
  { JObj("name" :> JStr("RemoveRedundancies")),
    JObj(("name" :> JStr("CliffordSimp")) @@ ("allow_swaps" :> JBool(TRUE))
           @@ ("target_2qb_gate" :> JStr("CX"))),
    JObj(("name" :> JStr("KAKDecomposition")) @@ ("fidelity" :> JInt(1))
           @@ ("allow_swaps" :> JBool(FALSE)) @@ ("target_2qb_gate" :> JStr("TK2"))) }

FaultyLeafPayloads ==
  { JObj(("name" :> JStr("SomeFuturePass")) @@ ("x" :> JInt(1))),
    JObj(("name" :> JStr("CliffordSimp")) @@ ("allow_swaps" :> JBool(TRUE))),
    JObj(("name" :> JStr("CliffordSimp")) @@ ("allow_swaps" :> JStr("yes"))
           @@ ("target_2qb_gate" :> JStr("CX"))),
    JObj(("name" :> JStr("DecomposeTK2")) @@ ("fidelities" :> JNull)),
    JObj(("name" :> JStr("DecomposeTK2"))
           @@ ("fidelities" :> JArr(<< JFlt(1), JNull, JNull >>))),
    JObj(("name" :> JStr("DecomposeTK2")) @@ ("fidelities" :> JArr(<< JFlt(1) >>))),
    JObj(WithExtra("name" :> JStr("RemoveRedundancies"))),
    JObj(WithExtra(("name" :> JStr("CliffordSimp")) @@ ("allow_swaps" :> JBool(TRUE))
                     @@ ("target_2qb_gate" :> JStr("CX")))) }

RemoveRedundanciesDoc == Node("StandardPass", JObj("name" :> JStr("RemoveRedundancies")))

NestLeafDocs == { Node("StandardPass", p) : p \in NestLeafPayloads }

FaultyLeafDocs ==
  { Node("StandardPass", p) : p \in FaultyLeafPayloads }
  \cup FaultyNodes("StandardPass",
                   JObj(("name" :> JStr("CliffordSimp")) @@ ("allow_swaps" :> JBool(TRUE))
                          @@ ("target_2qb_gate" :> JStr("CX"))))

\* Nodes of the wire shape that wrap the leaf document b once.
GoodWraps(b) ==
  { Node("RepeatPass", JObj("body" :> b)),
    Node("RepeatWithMetricPass", JObj(("body" :> b) @@ ("metric" :> JStr("m1")))),
    Node("RepeatUntilSatisfiedPass",
         JObj(("body" :> b) @@ ("predicate" :> JObj("type" :> JStr("NoMidMeasurePredicate"))))),
    Node("SequencePass", JObj("sequence" :> JArr(<< >>))),
    Node("SequencePass", JObj("sequence" :> JArr(<< b >>))),
    Node("SequencePass", JObj("sequence" :> JArr(<< b, b >>))),
    Node("SequencePass", JObj("sequence" :> JArr(<< RemoveRedundanciesDoc, b >>))),
    Node("SequencePass", JObj("sequence" :> JArr(<< b, RemoveRedundanciesDoc >>))) }

\* Further nodes of the wire shape around a leaf of the wire shape: every
\* opaque predicate.
BlobWraps(b) ==
  { Node("RepeatUntilSatisfiedPass", JObj(("body" :> b) @@ ("predicate" :> p))) : p \in Blobs }

\* Wrappers of b whose payload is a JSON array, not a JSON object.
ArrayFormWraps(b) ==
  { Node("RepeatPass", JArr(<< b >>)),
    Node("RepeatPass", JArr(<< >>)),
    Node("RepeatPass", JArr(<< b, b >>)),
    Node("RepeatWithMetricPass", JArr(<< b, JStr("m1") >>)),
    Node("RepeatWithMetricPass", JArr(<< JStr("m1"), b >>)),
    Node("RepeatUntilSatisfiedPass", JArr(<< b, JNull >>)),
    Node("SequencePass", JArr(<< JArr(<< b, b >>) >>)),
    Node("SequencePass", JArr(<< JArr(<< b, JNull >>) >>)) }

\* Wrappers of b with one fault, in the node or in its payload.
FaultyWraps(b) ==
  FaultyNodes("RepeatPass", JObj("body" :> b))
  \cup FaultyNodes("SequencePass", JObj("sequence" :> JArr(<< b >>)))
  \cup FaultyNodes("RepeatWithMetricPass", JObj(("body" :> b) @@ ("metric" :> JStr("m1"))))
  \cup FaultyNodes("RepeatUntilSatisfiedPass",
                   JObj(("body" :> b) @@ ("predicate" :> JNull)))
  \cup { Node("RepeatPass", JObj(EmptyMap)),
         Node("RepeatPass", JObj(WithExtra("body" :> b))),
         Node("RepeatWithMetricPass", JObj("body" :> b)),
         Node("RepeatWithMetricPass", JObj(("body" :> b) @@ ("metric" :> JInt(7)))),
         Node("RepeatUntilSatisfiedPass", JObj("body" :> b)),
         Node("SequencePass", JObj("sequence" :> b)),
         Node("SequencePass", JObj("sequence" :> JArr(<< b, JNull >>))),
         Node("SequencePass", JObj(EmptyMap)) }
  \cup ArrayFormWraps(b)

\* Nodes of the wire shape around an already nested document b.
OuterGoodWraps(b) ==
  { Node("RepeatPass", JObj("body" :> b)),
    Node("SequencePass", JObj("sequence" :> JArr(<< RemoveRedundanciesDoc, b >>))) }

\* Wrappers with one fault around an already nested document b.
OuterFaultyWraps(b) ==
  { JObj(WithExtra(Node("RepeatPass", JObj("body" :> b)).obj)),
    JObj(Node("RepeatPass", JObj("body" :> b)).obj @@ ("SequencePass" :> JObj("body" :> b))),
    JObj(("pass_class" :> JStr("RepeatPass")) @@ ("body" :> b)),
    JObj(("pass_class" :> JStr("FuturePass")) @@ ("FuturePass" :> JObj("body" :> b))),
    JObj(("pass_class" :> JStr("SequencePass")) @@ ("sequence" :> JArr(<< b >>))),
    Node("RepeatWithMetricPass", JObj("body" :> b)),
    Node("SequencePass", JObj("sequence" :> b)) }

RECURSIVE GoodDocs(_), FaultyDocs(_)
\* Documents of the wire shape nested at most k deep.
GoodDocs(k) ==
  IF k = 0 THEN NestLeafDocs
  ELSE IF k = 1
    THEN NestLeafDocs \cup UNION { GoodWraps(b) \cup BlobWraps(b) : b \in NestLeafDocs }
  ELSE GoodDocs(k - 1) \cup UNION { OuterGoodWraps(b) : b \in GoodDocs(k - 1) }

\* Documents nested at most k deep with one fault.
FaultyDocs(k) ==
  IF k = 0 THEN FaultyLeafDocs
  ELSE IF k = 1
    THEN FaultyLeafDocs
         \cup UNION { GoodWraps(b) : b \in FaultyLeafDocs }
         \cup UNION { FaultyWraps(b) : b \in NestLeafDocs }
  ELSE FaultyDocs(k - 1)
       \cup UNION { OuterGoodWraps(b) : b \in FaultyDocs(k - 1) }
       \cup UNION { OuterFaultyWraps(b) : b \in GoodDocs(k - 1) }

Docs ==
  { Node("StandardPass", p) : p \in PayloadDocs } \cup GoodDocs(MaxNest) \cup FaultyDocs(MaxNest)

(***************************************************************************)
(* The state machine: a caller either constructs a tree, encodes it and    *)
(* decodes the document, or receives a document, decodes it and encodes    *)
(* the tree again.                                                         *)
(***************************************************************************)
NoTree == [notree |-> TRUE]
NoDoc == [nodoc |-> TRUE]
Pending == [pending |-> TRUE]

InitTree ==
  /\ pc = "tree"
  /\ tree \in Trees
  /\ doc = NoDoc
  /\ res = Pending
  /\ out = NoDoc

InitDoc ==
  /\ pc = "doc"
  /\ tree = NoTree
  /\ doc \in Docs
  /\ res = Pending
  /\ out = NoDoc

Init == InitTree \/ InitDoc

\* serde_json::to_value(&pass) on a constructed tree.
Encode ==
  /\ pc = "tree"
  /\ doc' = EncodeBasePass(tree)
  /\ pc' = "encoded"
  /\ UNCHANGED << tree, res, out >>

\* serde_json::from_value::<BasePass>(doc).
Decode ==
  /\ pc \in {"encoded", "doc"}
  /\ res' = DecodeBasePass(doc)
  /\ pc' = IF pc = "encoded" THEN "roundtrip" ELSE "decoded"
  /\ UNCHANGED << tree, doc, out >>

\* serde_json::to_value(&pass) on the tree a document decoded to.
ReEncode ==
  /\ pc = "decoded"
  /\ IsOk(res)
  /\ out' = EncodeBasePass(res.ok)
  /\ pc' = "reencoded"
  /\ UNCHANGED << tree, doc, res >>

Next == Encode \/ Decode \/ ReEncode

Spec == Init /\ [][Next]_vars

(***************************************************************************)
(* Predicates over trees and documents used by the properties.             *)
(***************************************************************************)
RECURSIVE FiniteValue(_), FinitePass(_)

\* No f64 inside the typed value is NaN or infinite.
FiniteValue(v) ==
  CASE "f64_nonfinite" \in DOMAIN v -> FALSE
    [] "some" \in DOMAIN v -> FiniteValue(v.some)
    [] "fidelities" \in DOMAIN v ->
         \A k \in DOMAIN v.fidelities : FiniteValue(v.fidelities[k])
    [] "boxed" \in DOMAIN v -> FinitePass(v.boxed)
    [] "passes" \in DOMAIN v -> \A i \in 1..Len(v.passes) : FinitePass(v.passes[i])
    [] OTHER -> TRUE

FinitePass(p) ==
  IF p.pass_class = "StandardPass"
    THEN \A k \in DOMAIN p.pass.fields : FiniteValue(p.pass.fields[k])
    ELSE \A k \in DOMAIN p.pass : FiniteValue(p.pass[k])

RECURSIVE DepthOf(_)
\* Number of Sequence / Repeat* nodes on the longest path of a tree.
DepthOf(p) ==
  IF p.pass_class = "StandardPass" THEN 0
  ELSE IF p.pass_class = "SequencePass"
    THEN LET s == p.pass.sequence.passes
             RECURSIVE MaxD(_)
             MaxD(i) == IF i = 0 THEN 0
                        ELSE LET d == DepthOf(s[i]) m == MaxD(i - 1)
                             IN  IF d > m THEN d ELSE m
         IN  1 + MaxD(Len(s))
  ELSE 1 + DepthOf(p.pass.body.boxed)

RECURSIVE WFValue(_, _, _), WFStruct(_, _, _), WFPass(_, _)

\* The document j has the wire shape of type t.  With strict, a field of
\* type f64 must hold a floating-point number; otherwise any JSON number.
WFValue(t, j, strict) ==
  CASE t \in OptionTypes -> WFValue(Inner(t), j, strict)
    [] t = "bool" -> IsBool(j)
    [] t = "f64" -> IsFlt(j) \/ (~strict /\ IsInt(j))
    [] t = "u32" -> IsInt(j) /\ j.int >= 0
    [] t = "i64" -> IsInt(j)
    [] t = "string" -> IsStr(j)
    [] t = "vec_string" -> IsArr(j) /\ \A i \in 1..Len(j.arr) : IsStr(j.arr[i])
    [] t \in EnumTypes -> IsStr(j) /\ j.str \in EnumVariants(t)
    [] t = "value" -> TRUE
    [] t = "circuit" -> IsOk(DecodeCircuit(j))
    [] t = "routing_config" ->
         IsArr(j) /\ \A i \in 1..Len(j.arr) : WFStruct(RoutingMethod, j.arr[i], strict)
    [] t = "qubit_map" ->
         IsArr(j) /\ \A i \in 1..Len(j.arr) :
           /\ IsArr(j.arr[i])
           /\ Len(j.arr[i].arr) = 2
           /\ IsStr(j.arr[i].arr[1]) /\ IsStr(j.arr[i].arr[2])
    [] t = "fidelities" -> WFStruct(DecomposeTk2Fidelities, j, strict)
    [] t = "base_pass" -> WFPass(j, strict)
    [] t = "vec_base_pass" ->
         IsArr(j) /\ \A i \in 1..Len(j.arr) : WFPass(j.arr[i], strict)

\* An object with exactly the keys of the struct's fields, where only
\* Option fields may be missing.
WFStruct(fields, j, strict) ==
  /\ IsObj(j)
  /\ Keys(j) \subseteq FieldKeys(fields)
  /\ \A i \in 1..Len(fields) :
       IF HasKey(j, fields[i].key)
         THEN WFValue(fields[i].ty, j.obj[fields[i].key], strict)
         ELSE fields[i].ty \in OptionTypes

WFStandard(j, strict) ==
  /\ IsObj(j)
  /\ HasKey(j, "name")
  /\ IsStr(j.obj["name"])
  /\ j.obj["name"].str \in StandardPassNames
  /\ IF j.obj["name"].str \in UnitVariants
       THEN Keys(j) = {"name"}
       ELSE WFStruct(StructOf(j.obj["name"].str), JObj(Without(j.obj, {"name"})), strict)

\* A Pass node of the wire shape of section 6, at every depth.
WFPass(j, strict) ==
  /\ IsObj(j)
  /\ HasKey(j, "pass_class")
  /\ IsStr(j.obj["pass_class"])
  /\ j.obj["pass_class"].str \in PassClasses
  /\ Keys(j) = {"pass_class", j.obj["pass_class"].str}
  /\ LET c == j.obj["pass_class"].str
     IN  IF c = "StandardPass" THEN WFStandard(j.obj[c], strict)
         ELSE WFStruct(BasePassFields(c), j.obj[c], strict)

WellFormed(j) == WFPass(j, FALSE)
WellFormedFloats(j) == WFPass(j, TRUE)

\* The Pass documents directly below the Pass node j that decode descends
\* into: the body of a Repeat* payload, the elements of a sequence.
Children(j) ==
  IF /\ IsObj(j) /\ HasKey(j, "pass_class") /\ IsStr(j.obj["pass_class"])
     /\ j.obj["pass_class"].str \in PassClasses \ {"StandardPass"}
     /\ HasKey(j, j.obj["pass_class"].str)
     /\ (IsObj(j.obj[j.obj["pass_class"].str]) \/ IsArr(j.obj[j.obj["pass_class"].str]))
    THEN LET c == j.obj["pass_class"].str
             p == j.obj[c]
             first == IF IsObj(p)
                        THEN (IF HasKey(p, BasePassFields(c)[1].key)
                                THEN { p.obj[BasePassFields(c)[1].key] } ELSE {})
                        ELSE (IF Len(p.arr) > 0 THEN { p.arr[1] } ELSE {})
         IN  IF c = "SequencePass"
               THEN UNION { { s.arr[i] : i \in 1..Len(s.arr) } : s \in { x \in first : IsArr(x) } }
               ELSE first
    ELSE {}

RECURSIVE PassNodes(_)
\* Every Pass document of j: j itself and the Pass documents below it.
PassNodes(j) == {j} \cup UNION { PassNodes(c) : c \in Children(j) }

(***************************************************************************)
(* Properties.                                                             *)
(***************************************************************************)

\* C1 as stated: for every constructible pass tree p, decoding the document
\* produced by encoding p succeeds and yields a tree equal to p.
C1_RoundTripEveryTree == pc = "roundtrip" => res = Ok(tree)

\* C1 (amended): for every pass tree whose f64 fields are all finite,
\* decoding the document produced by encoding it succeeds and yields a tree
\* structurally equal to it.
C1_RoundTripFiniteTrees == pc = "roundtrip" /\ FinitePass(tree) => res = Ok(tree)

\* A nested tree with a floating-point field has made the round trip.
C1_Witness ==
  /\ pc = "roundtrip"
  /\ FinitePass(tree)
  /\ DepthOf(tree) = MaxNest
  /\ res = Ok(tree)

\* C2 as stated: for every well-formed document d, decode(d) succeeds and
\* encode(decode(d)) is value-equal to d.
C2_DocumentFidelity ==
  WellFormed(doc) =>
    /\ pc = "decoded" => IsOk(res)
    /\ pc = "reencoded" => out = doc

\* C2 (amended): for every well-formed document d whose floating-point
\* fields hold floating-point numbers, decode(d) succeeds and
\* encode(decode(d)) is value-equal to d; a floating-point field written
\* as an integer is re-encoded as a floating-point number.
C2_DocumentFidelityFloats ==
  /\ WellFormed(doc) /\ pc = "decoded" => IsOk(res)
  /\ WellFormedFloats(doc) /\ pc = "reencoded" => out = doc

\* A nested well-formed document has been decoded and encoded again.
C2_Witness ==
  /\ pc = "reencoded"
  /\ WellFormedFloats(doc)
  /\ Cardinality(PassNodes(doc)) >= 3
  /\ out = doc

\* The payload of a StandardPass document whose name is no catalog tag.
UnknownNameNode(n) ==
  /\ IsObj(n) /\ HasKey(n, "pass_class") /\ n.obj["pass_class"] = JStr("StandardPass")
  /\ HasKey(n, "StandardPass") /\ IsObj(n.obj["StandardPass"])
  /\ HasKey(n.obj["StandardPass"], "name")
  /\ IsStr(n.obj["StandardPass"].obj["name"])
  /\ n.obj["StandardPass"].obj["name"].str \notin StandardPassNames

\* C3 as stated: decoding a StandardPass payload whose name is not a
\* catalog tag succeeds with a placeholder that retains the raw name, and
\* re-encoding the placeholder reproduces the identical object.
C3_UnknownNamePlaceholder ==
  UnknownNameNode(doc) =>
    /\ pc = "decoded" => IsOk(res) /\ res.ok.pass.name = doc.obj["StandardPass"].obj["name"].str
    /\ pc = "reencoded" => out = doc

\* C3 (amended): decoding a StandardPass payload whose name is not one of
\* the catalog tags fails with an unknown-variant error, at the root and
\* under any nesting; no placeholder is produced.
C3_UnknownNameRejected ==
  pc = "decoded" =>
    /\ (\E n \in PassNodes(doc) : UnknownNameNode(n)) => IsErr(res)
    /\ UnknownNameNode(doc) => res = Err(UnknownVariant)

\* The document of the spec's example has been decoded.
C3_Witness ==
  /\ pc = "decoded"
  /\ doc = Node("StandardPass", JObj(("name" :> JStr("SomeFuturePass")) @@ ("x" :> JInt(1))))
  /\ res = Err(UnknownVariant)

\* A Pass node with a top-level key besides pass_class and the payload key
\* that pass_class names.
HasExtraKey(n) ==
  /\ IsObj(n) /\ HasKey(n, "pass_class") /\ IsStr(n.obj["pass_class"])
  /\ Keys(n) \ {"pass_class", n.obj["pass_class"].str} # {}

RECURSIVE StripExtra(_)
\* The document without the extra top-level keys of its Pass nodes.
StripExtra(j) ==
  IF ~(IsObj(j) /\ HasKey(j, "pass_class") /\ IsStr(j.obj["pass_class"])) THEN j
  ELSE
    LET c == j.obj["pass_class"].str
        below(p) ==
          IF c \notin PassClasses \ {"StandardPass"} \/ ~IsObj(p) THEN p
          ELSE IF c = "SequencePass"
            THEN IF HasKey(p, "sequence") /\ IsArr(p.obj["sequence"])
                   THEN JObj([k \in Keys(p) |->
                                IF k = "sequence"
                                  THEN JArr([i \in 1..Len(p.obj[k].arr) |->
                                               StripExtra(p.obj[k].arr[i])])
                                  ELSE p.obj[k]])
                   ELSE p
          ELSE JObj([k \in Keys(p) |-> IF k = "body" THEN StripExtra(p.obj[k]) ELSE p.obj[k]])
    IN  JObj([k \in Keys(j) \cap {"pass_class", c} |->
                IF k = c /\ c # "pass_class" THEN below(j.obj[k]) ELSE j.obj[k]])

\* C4 as stated: decoding an outer Pass object that carries a top-level key
\* other than pass_class and the payload key fails.
C4_ExtraKeyRejected ==
  pc = "decoded" /\ (\E n \in PassNodes(doc) : HasExtraKey(n)) => IsErr(res)

\* C4 (amended): top-level keys of a Pass object other than pass_class and
\* the payload key named by pass_class are ignored: decoding gives the
\* result of decoding the object without them, and succeeds when the rest
\* of the document is well-formed.
C4_ExtraKeyIgnored ==
  pc = "decoded" /\ (\E n \in PassNodes(doc) : HasExtraKey(n)) =>
    /\ res = DecodeBasePass(StripExtra(doc))
    /\ WellFormed(StripExtra(doc)) => IsOk(res)

\* A Repeat node that also carries the payload key of another discriminant
\* has been decoded into a tree.
C4_Witness ==
  /\ pc = "decoded"
  /\ IsObj(doc)
  /\ Keys(doc) = {"pass_class", "RepeatPass", "SequencePass"}
  /\ doc.obj["pass_class"] = JStr("RepeatPass")
  /\ IsOk(res)
  /\ res.ok.pass_class = "RepeatPass"

\* A Pass node whose pass_class is a discriminant and which has no key of
\* that name.
MissingPayload(n) ==
  /\ IsObj(n) /\ HasKey(n, "pass_class") /\ IsStr(n.obj["pass_class"])
  /\ n.obj["pass_class"].str \in PassClasses
  /\ ~HasKey(n, n.obj["pass_class"].str)

\* C5: decoding a document whose pass_class is one of the five
\* discriminants but which has no payload field of exactly that name fails
\* (serde's missing-field error for the payload key, the spec's
\* TagMismatch); it never yields a Pass.
C5_TagMismatch ==
  pc = "decoded" =>
    /\ (\E n \in PassNodes(doc) : MissingPayload(n)) => IsErr(res)
    /\ MissingPayload(doc) => res = Err(MissingField)

\* A SequencePass document with its payload under "sequence" was rejected.
C5_Witness ==
  /\ pc = "decoded"
  /\ MissingPayload(doc)
  /\ doc.obj["pass_class"] = JStr("SequencePass")
  /\ HasKey(doc, "sequence")
  /\ res = Err(MissingField)

\* A Pass node whose pass_class is a string outside the five discriminants.
UnknownClass(n) ==
  /\ IsObj(n) /\ HasKey(n, "pass_class") /\ IsStr(n.obj["pass_class"])
  /\ n.obj["pass_class"].str \notin PassClasses

RECURSIVE Repair(_)
\* The document with every Pass node of unknown class replaced by a leaf.
Repair(j) ==
  IF UnknownClass(j) THEN Node("StandardPass", JObj("name" :> JStr("RemoveRedundancies")))
  ELSE IF Children(j) = {} THEN j
  ELSE LET c == j.obj["pass_class"].str
           p == j.obj[c]
           q == JObj([k \in Keys(p) |->
                        IF c = "SequencePass" /\ k = "sequence"
                          THEN JArr([i \in 1..Len(p.obj[k].arr) |-> Repair(p.obj[k].arr[i])])
                        ELSE IF c # "SequencePass" /\ k = "body" THEN Repair(p.obj[k])
                        ELSE p.obj[k]])
       IN  JObj([k \in Keys(j) |-> IF k = c THEN q ELSE j.obj[k]])

\* C6: decoding a Pass object whose pass_class is a string outside the five
\* discriminants is an error at every nesting depth, and it is the
\* unknown-variant error when that is the document's only fault; the outer
\* union has no catch-all.
C6_UnknownClassRejected ==
  pc = "decoded" /\ (\E n \in PassNodes(doc) : UnknownClass(n)) =>
    /\ IsErr(res)
    /\ UnknownClass(doc) \/ WellFormed(Repair(doc)) => res = Err(UnknownVariant)

\* A node of unknown class two levels below the root was rejected.
C6_Witness ==
  /\ pc = "decoded"
  /\ ~UnknownClass(doc)
  /\ \A n \in Children(doc) : ~UnknownClass(n)
  /\ \E n \in PassNodes(doc) : UnknownClass(n)
  /\ res = Err(UnknownVariant)

RECURSIVE NodeShape(_, _)
\* The document d of the tree p has, at every Pass node, exactly the keys
\* pass_class and the discriminant, pass_class holding the discriminant.
NodeShape(p, d) ==
  /\ IsObj(d)
  /\ Keys(d) = {"pass_class", p.pass_class}
  /\ d.obj["pass_class"] = JStr(p.pass_class)
  /\ IsObj(d.obj[p.pass_class])
  /\ CASE p.pass_class = "StandardPass" -> TRUE
       [] p.pass_class = "SequencePass" ->
            LET s == p.pass.sequence.passes
                q == d.obj[p.pass_class]
            IN  /\ HasKey(q, "sequence") /\ IsArr(q.obj["sequence"])
                /\ Len(q.obj["sequence"].arr) = Len(s)
                /\ \A i \in 1..Len(s) : NodeShape(s[i], q.obj["sequence"].arr[i])
       [] OTHER ->
            /\ HasKey(d.obj[p.pass_class], "body")
            /\ NodeShape(p.pass.body.boxed, d.obj[p.pass_class].obj["body"])

\* C7: every Pass node of an encoded document, the root and every nested
\* body and sequence element, is an object with exactly the two keys
\* pass_class (holding the discriminant) and the discriminant (holding the
\* payload).
C7_TwoKeysPerNode ==
  /\ pc \in {"encoded", "roundtrip"} => NodeShape(tree, doc)
  /\ pc = "reencoded" => NodeShape(res.ok, out)

\* A nested sequence has been encoded.
C7_Witness ==
  /\ pc = "encoded"
  /\ tree.pass_class = "SequencePass"
  /\ DepthOf(tree) = MaxNest
  /\ Cardinality(PassNodes(doc)) >= 3

OptionKeys(fields) == { fields[i].key : i \in { n \in 1..Len(fields) : fields[n].ty \in OptionTypes } }

None == [none |-> TRUE]

\* In the document q of the struct value fv, a key of an Option field is
\* there exactly when the field is Some; this holds inside a present
\* fidelities struct too.
OmittedWhenNone(fields, fv, q) ==
  /\ IsObj(q)
  /\ \A k \in OptionKeys(fields) : (fv[k] = None) <=> ~HasKey(q, k)
  /\ \A k \in OptionKeys(fields) :
       "some" \in DOMAIN fv[k] /\ "fidelities" \in DOMAIN fv[k].some =>
         /\ IsObj(q.obj[k])
         /\ \A g \in OptionKeys(DecomposeTk2Fidelities) :
              (fv[k].some.fidelities[g] = None) <=> ~HasKey(q.obj[k], g)

\* In the struct value fv decoded from the document q, an Option field
\* whose key is missing is None, and one holding an empty list is Some of
\* the empty list; this holds inside a present fidelities object too.
NoneWhenMissing(fields, fv, q) ==
  /\ \A k \in OptionKeys(fields) :
       /\ ~HasKey(q, k) => fv[k] = None
       /\ HasKey(q, k) /\ q.obj[k] = JArr(<< >>) => fv[k] = [some |-> [vec |-> << >>]]
  /\ \A k \in OptionKeys(fields) :
       HasKey(q, k) /\ IsObj(q.obj[k]) /\ "some" \in DOMAIN fv[k]
         /\ "fidelities" \in DOMAIN fv[k].some =>
         \A g \in OptionKeys(DecomposeTk2Fidelities) :
           ~HasKey(q.obj[k], g) => fv[k].some.fidelities[g] = None

IsNewtypeLeaf(p) == p.pass_class = "StandardPass" /\ p.pass.name \in NewtypeVariants

\* C8: for every optional field, encoding a value where the field is absent
\* emits no key for it (never an explicit null), and decoding a document
\* where the key is missing yields absent, which stays distinct from a
\* present empty list.
C8_OptionalOmission ==
  /\ pc \in {"encoded", "roundtrip"} /\ IsNewtypeLeaf(tree) =>
       OmittedWhenNone(StructOf(tree.pass.name), tree.pass.fields, doc.obj["StandardPass"])
  /\ pc = "decoded" /\ IsOk(res) /\ IsNewtypeLeaf(res.ok) =>
       NoneWhenMissing(StructOf(res.ok.pass.name), res.ok.pass.fields, doc.obj["StandardPass"])
  /\ pc = "reencoded" /\ IsNewtypeLeaf(res.ok) =>
       OmittedWhenNone(StructOf(res.ok.pass.name), res.ok.pass.fields, out.obj["StandardPass"])

\* A DecomposeBoxes without included_types and with an empty
\* included_opgroups has been encoded: one key omitted, one present.
C8_Witness ==
  /\ pc = "encoded"
  /\ IsNewtypeLeaf(tree)
  /\ tree.pass.name = "DecomposeBoxes"
  /\ tree.pass.fields["included_types"] = None
  /\ tree.pass.fields["included_opgroups"] = [some |-> [vec |-> << >>]]
  /\ ~HasKey(doc.obj["StandardPass"], "included_types")
  /\ doc.obj["StandardPass"].obj["included_opgroups"] = JArr(<< >>)

\* The elements of a list-valued typed value, in order.
TreeItems(v) ==
  CASE "some" \in DOMAIN v ->
         IF "vec" \in DOMAIN v.some THEN v.some.vec ELSE << >>
    [] "vec" \in DOMAIN v -> v.vec
    [] "routing" \in DOMAIN v -> [i \in 1..Len(v.routing) |-> v.routing[i]["name"].string]
    [] "qubit_map" \in DOMAIN v -> v.qubit_map
    [] OTHER -> << >>

\* The elements of the JSON array of a list-valued field of type t, in order.
DocItems(t, j) ==
  CASE t \in {"vec_string", "opt_vec_string"} -> [i \in 1..Len(j.arr) |-> j.arr[i].str]
    [] t = "routing_config" -> [i \in 1..Len(j.arr) |-> j.arr[i].obj["name"].str]
    [] t = "qubit_map" ->
         [i \in 1..Len(j.arr) |-> << j.arr[i].arr[1].str, j.arr[i].arr[2].str >>]

ListTypes == {"vec_string", "opt_vec_string", "routing_config", "qubit_map"}

\* The list fields of the leaf p hold the elements of the arrays of the
\* document d, at the same positions.
LeafListsAgree(p, d) ==
  IsNewtypeLeaf(p) =>
    LET fs == StructOf(p.pass.name)
        q == d.obj["StandardPass"]
    IN  \A i \in 1..Len(fs) :
          fs[i].ty \in ListTypes /\ p.pass.fields[fs[i].key] # None =>
            /\ HasKey(q, fs[i].key)
            /\ IsArr(q.obj[fs[i].key])
            /\ DocItems(fs[i].ty, q.obj[fs[i].key]) = TreeItems(p.pass.fields[fs[i].key])

\* The array under `sequence` in the document d of the Sequence tree p.
SequenceArray(d) == d.obj["SequencePass"].obj["sequence"]

\* C10: every ordered-sequence field keeps its elements in the same order,
\* with the same length and with duplicates retained, both when decoding a
\* document into a tree and when encoding a tree into a document; element
\* i of `sequence` in the document is element i of the Sequence (the
\* payload being a JSON object, which has the key `sequence`).
C10_OrderPreserved ==
  /\ pc = "encoded" =>
       /\ LeafListsAgree(tree, doc)
       /\ tree.pass_class = "SequencePass" =>
            /\ IsArr(SequenceArray(doc))
            /\ Len(SequenceArray(doc).arr) = Len(tree.pass.sequence.passes)
            /\ \A i \in 1..Len(tree.pass.sequence.passes) :
                 SequenceArray(doc).arr[i] = EncodeBasePass(tree.pass.sequence.passes[i])
  /\ pc = "decoded" /\ IsOk(res) =>
       /\ LeafListsAgree(res.ok, doc)
       /\ res.ok.pass_class = "SequencePass" /\ IsObj(doc.obj["SequencePass"]) =>
            /\ Len(res.ok.pass.sequence.passes) = Len(SequenceArray(doc).arr)
            /\ \A i \in 1..Len(res.ok.pass.sequence.passes) :
                 Ok(res.ok.pass.sequence.passes[i]) = DecodeBasePass(SequenceArray(doc).arr[i])

\* The spec's scenario: a sequence of RemoveRedundancies and CliffordSimp
\* decoded to a Sequence of length 2 whose second element is CliffordSimp.
C10_Witness ==
  /\ pc = "decoded"
  /\ IsOk(res)
  /\ res.ok.pass_class = "SequencePass"
  /\ Len(res.ok.pass.sequence.passes) = 2
  /\ res.ok.pass.sequence.passes[1].pass.name = "RemoveRedundancies"
  /\ res.ok.pass.sequence.passes[2] =
       Standard([name |-> "CliffordSimp",
                 fields |-> [allow_swaps |-> [bool |-> TRUE],
                             target_2qb_gate |-> [enum |-> "CX"]]])

\* The payload object of the Pass node d.
PayloadOf(d) == d.obj[d.obj["pass_class"].str]

\* The fields of the node p that hold opaque payloads: the blobs
\* (predicate, architecture, placement) and the opaque strings (metric,
\* basis_tk1_replacement).
OpaqueOf(p) ==
  LET fs == IF p.pass_class = "StandardPass"
              THEN (IF p.pass.name \in UnitVariants THEN << >> ELSE StructOf(p.pass.name))
              ELSE BasePassFields(p.pass_class)
  IN  { fs[i] : i \in { i \in 1..Len(fs) :
                          \/ fs[i].ty = "value"
                          \/ fs[i].key \in {"metric", "basis_tk1_replacement"} } }

\* The values of the fields of the node p.
FieldsOf(p) == IF p.pass_class = "StandardPass" THEN p.pass.fields ELSE p.pass

\* The JSON value that the opaque field value v of type t holds.
Raw(t, v) == IF t = "value" THEN v.value ELSE JStr(v.string)

\* A RepeatUntilSatisfiedPass node whose body decodes and whose payload has
\* a `predicate` key, whatever JSON value is under it.
AnyPredicateNode(d) ==
  /\ IsObj(d)
  /\ HasKey(d, "pass_class")
  /\ d.obj["pass_class"] = JStr("RepeatUntilSatisfiedPass")
  /\ HasKey(d, "RepeatUntilSatisfiedPass")
  /\ IsObj(PayloadOf(d))
  /\ HasKey(PayloadOf(d), "body")
  /\ HasKey(PayloadOf(d), "predicate")
  /\ IsOk(DecodeBasePass(PayloadOf(d).obj["body"]))

\* C11: opaque payloads (predicate, architecture and placement blobs, the
\* metric and basis_tk1_replacement strings) are carried through unchanged:
\* encode emits exactly the value the tree holds, decode stores exactly the
\* value of the document and re-encoding emits it again; any JSON value is
\* accepted as a predicate, none is validated or rewritten.
C11_OpaqueCarried ==
  /\ pc = "encoded" =>
       \A f \in OpaqueOf(tree) :
         /\ HasKey(PayloadOf(doc), f.key)
         /\ PayloadOf(doc).obj[f.key] = Raw(f.ty, FieldsOf(tree)[f.key])
  /\ pc = "decoded" /\ AnyPredicateNode(doc) => IsOk(res)
  /\ pc \in {"decoded", "reencoded"} /\ IsOk(res) /\ IsObj(PayloadOf(doc)) =>
       \A f \in OpaqueOf(res.ok) :
         /\ HasKey(PayloadOf(doc), f.key)
         /\ Raw(f.ty, FieldsOf(res.ok)[f.key]) = PayloadOf(doc).obj[f.key]
  /\ pc = "reencoded" /\ IsObj(PayloadOf(doc)) =>
       \A f \in OpaqueOf(res.ok) :
         /\ HasKey(PayloadOf(out), f.key)
         /\ PayloadOf(out).obj[f.key] = PayloadOf(doc).obj[f.key]

\* A predicate that is a JSON array of an integer, a float and the integer
\* again was decoded and encoded again, and came out as it went in.
C11_Witness ==
  /\ pc = "reencoded"
  /\ AnyPredicateNode(doc)
  /\ PayloadOf(doc).obj["predicate"] = JArr(<< JInt(1), JFlt(2), JInt(1) >>)
  /\ res.ok.pass.predicate = [value |-> JArr(<< JInt(1), JFlt(2), JInt(1) >>)]
  /\ PayloadOf(out).obj["predicate"] = PayloadOf(doc).obj["predicate"]

RECURSIVE JsonTypeMatches(_, _)
\* The JSON type of j is the one the wire schema gives a field of type t:
\* a boolean, a number, a string, an array or an object; null stands for
\* an optional field that is absent.
JsonTypeMatches(t, j) ==
  CASE t \in OptionTypes -> IsNull(j) \/ JsonTypeMatches(Inner(t), j)
    [] t = "bool" -> IsBool(j)
    [] t \in {"f64", "u32", "i64"} -> IsInt(j) \/ IsFlt(j)
    [] t = "string" \/ t \in EnumTypes -> IsStr(j)
    [] t \in {"vec_string", "routing_config", "qubit_map", "vec_base_pass"} -> IsArr(j)
    [] t = "value" -> TRUE
    [] OTHER -> IsObj(j)

RECURSIVE JsonTypeRefused(_, _)
\* The JSON type of j is one that a field of type t accepts in no form:
\* null is accepted by an optional field, an array by a struct, an object
\* by a unit-only enum.
JsonTypeRefused(t, j) ==
  CASE t \in OptionTypes -> ~IsNull(j) /\ JsonTypeRefused(Inner(t), j)
    [] t = "bool" -> ~IsBool(j)
    [] t \in {"f64", "u32", "i64"} -> ~(IsInt(j) \/ IsFlt(j))
    [] t = "string" -> ~IsStr(j)
    [] t \in EnumTypes -> ~(IsStr(j) \/ IsObj(j))
    [] t \in {"vec_string", "routing_config", "qubit_map", "vec_base_pass"} -> ~IsArr(j)
    [] t = "value" -> FALSE
    [] OTHER -> ~(IsObj(j) \/ IsArr(j))

\* The payload p of a variant with the given fields is malformed as C12
\* states it: a required field is missing or a field has the wrong JSON type.
MalformedPayload(fields, p) ==
  \/ ~IsObj(p)
  \/ \E i \in 1..Len(fields) :
       IF HasKey(p, fields[i].key)
         THEN ~JsonTypeMatches(fields[i].ty, p.obj[fields[i].key])
         ELSE fields[i].ty \notin OptionTypes

\* The payload p is an object that lacks a required field or holds a value
\* of a JSON type its field accepts in no form, or p is no object or array.
RefusedPayload(fields, p) ==
  \/ ~(IsObj(p) \/ IsArr(p))
  \/ /\ IsObj(p)
     /\ \E i \in 1..Len(fields) :
          IF HasKey(p, fields[i].key)
            THEN JsonTypeRefused(fields[i].ty, p.obj[fields[i].key])
            ELSE fields[i].ty \notin OptionTypes

\* The Pass node n names a known variant and has its payload key.
KnownNode(n) ==
  /\ IsObj(n)
  /\ HasKey(n, "pass_class")
  /\ IsStr(n.obj["pass_class"])
  /\ n.obj["pass_class"].str \in PassClasses
  /\ HasKey(n, n.obj["pass_class"].str)
  /\ n.obj["pass_class"].str = "StandardPass" =>
       /\ IsObj(PayloadOf(n))
       /\ HasKey(PayloadOf(n), "name")
       /\ IsStr(PayloadOf(n).obj["name"])
       /\ PayloadOf(n).obj["name"].str \in StandardPassNames

\* The fields of the variant that the known node n names.
VariantFields(n) ==
  IF n.obj["pass_class"].str = "StandardPass"
    THEN (IF PayloadOf(n).obj["name"].str \in UnitVariants
            THEN << >> ELSE StructOf(PayloadOf(n).obj["name"].str))
    ELSE BasePassFields(n.obj["pass_class"].str)

MalformedNode(n) == KnownNode(n) /\ MalformedPayload(VariantFields(n), PayloadOf(n))
RefusedNode(n) == KnownNode(n) /\ RefusedPayload(VariantFields(n), PayloadOf(n))

RECURSIVE SumSeq(_)
SumSeq(s) == IF s = << >> THEN 0 ELSE Head(s) + SumSeq(Tail(s))

\* The Pass documents directly below the Pass node j, in order and with
\* repetitions.
ChildSeq(j) ==
  IF Children(j) = {} THEN << >>
  ELSE LET c == j.obj["pass_class"].str
           p == j.obj[c]
           first == IF IsObj(p) THEN p.obj[BasePassFields(c)[1].key] ELSE p.arr[1]
       IN  IF c = "SequencePass" THEN first.arr ELSE << first >>

RECURSIVE DocSize(_)
\* The number of Pass nodes of the document j.
DocSize(j) == 1 + SumSeq([i \in 1..Len(ChildSeq(j)) |-> DocSize(ChildSeq(j)[i])])

RECURSIVE TreeSize(_)
\* The number of nodes of the tree p.
TreeSize(p) ==
  CASE p.pass_class = "StandardPass" -> 1
    [] p.pass_class = "SequencePass" ->
         1 + SumSeq([i \in 1..Len(p.pass.sequence.passes) |->
                       TreeSize(p.pass.sequence.passes[i])])
    [] OTHER -> 1 + TreeSize(p.pass.body.boxed)

\* C12 as stated: when any node at any depth is malformed (a required field
\* of a known variant's payload is missing, or a field has the wrong JSON
\* type), decode of the whole document returns an error.
C12_MalformedRejected ==
  pc = "decoded" /\ (\E n \in PassNodes(doc) : MalformedNode(n)) => IsErr(res)

\* C12 as amended: when any node at any depth lacks a required field of
\* its payload object or holds a value of a JSON type its field accepts in
\* no form, or when any node does not decode, decode of the whole document
\* returns an error; a tree that is returned has one node for every node
\* of the document, none dropped or skipped.
C12_FaultPropagates ==
  pc = "decoded" =>
    /\ (\E n \in PassNodes(doc) : RefusedNode(n)) => IsErr(res)
    /\ (\E n \in PassNodes(doc) : IsErr(DecodeBasePass(n))) => IsErr(res)
    /\ IsOk(res) => TreeSize(res.ok) = DocSize(doc)

\* A node two levels below the root lacks a required field or holds a
\* value of a refused JSON type, and the decode of the document failed.
C12_Witness ==
  /\ pc = "decoded"
  /\ IsErr(res)
  /\ \E n \in PassNodes(doc) :
       /\ n # doc
       /\ n \notin Children(doc)
       /\ RefusedNode(n)

\* The four tags that share the payload PauliSynthesisConfig.
PauliTags == {"PauliSimp", "PauliExponentials", "GuidedPauliSimp", "PauliSquash"}

\* The payload q of the StandardPass value sp is one object: `name` holds
\* the variant's tag and the variant's fields are its other keys.
FlatPayload(sp, q) ==
  /\ IsObj(q)
  /\ HasKey(q, "name")
  /\ q.obj["name"] = JStr(sp.name)
  /\ ~HasKey(q, sp.name)
  /\ IF sp.name \in UnitVariants
       THEN q = JObj("name" :> JStr(sp.name))
       ELSE LET fs == StructOf(sp.name)
                kept == { i \in 1..Len(fs) : sp.fields[fs[i].key] # None }
            IN  /\ Keys(q) = {"name"} \cup { fs[i].key : i \in kept }
                /\ \A i \in kept :
                     q.obj[fs[i].key] = EncodeValue(Inner(fs[i].ty), Unwrap(sp.fields[fs[i].key]))
  /\ sp.name \in PauliTags =>
       \A other \in PauliTags \ {sp.name} :
         LET o == EncodeStandardPass([name |-> other, fields |-> sp.fields])
         IN  /\ o # q
             /\ o.obj["name"] = JStr(other)
             /\ Without(o.obj, {"name"}) = Without(q.obj, {"name"})

RECURSIVE StandardShape(_, _)
\* Every Standard payload of the document d of the tree p is flat.
StandardShape(p, d) ==
  CASE p.pass_class = "StandardPass" -> FlatPayload(p.pass, d.obj["StandardPass"])
    [] p.pass_class = "SequencePass" ->
         \A i \in 1..Len(p.pass.sequence.passes) :
           StandardShape(p.pass.sequence.passes[i],
                         d.obj["SequencePass"].obj["sequence"].arr[i])
    [] OTHER -> StandardShape(p.pass.body.boxed, d.obj[p.pass_class].obj["body"])

\* C13: for every StandardPass value the encoded Standard payload is a
\* single object holding `name` with the variant's tag and the variant's
\* fields as sibling keys, not nested under a key named after the tag; a
\* zero-field variant encodes as exactly {"name": tag}; the four
\* Pauli-synthesis tags keep their own name and share one payload shape.
C13_FlattenedNameTag ==
  /\ pc = "encoded" => StandardShape(tree, doc)
  /\ pc = "reencoded" => StandardShape(res.ok, out)

\* A PauliSquash value has been encoded with its own name next to the two
\* fields of the shared payload.
C13_Witness ==
  /\ pc = "encoded"
  /\ tree.pass_class = "StandardPass"
  /\ tree.pass.name = "PauliSquash"
  /\ Keys(PayloadOf(doc)) = {"name", "pauli_synth_strat", "cx_config"}
  /\ PayloadOf(doc).obj["name"] = JStr("PauliSquash")

\* The Standard node n has a known name and its payload carries keys that
\* are neither `name` nor fields of the variant.
ExtraPayloadKeys(n) ==
  /\ KnownNode(n)
  /\ n.obj["pass_class"].str = "StandardPass"
  /\ Keys(PayloadOf(n)) \ ({"name"} \cup FieldKeys(VariantFields(n))) # {}

RECURSIVE StripPayloads(_)
\* The document without the keys of its Standard payloads that are neither
\* `name` nor fields of the named variant.
StripPayloads(j) ==
  IF ~(/\ IsObj(j) /\ HasKey(j, "pass_class") /\ IsStr(j.obj["pass_class"])
       /\ j.obj["pass_class"].str \in PassClasses
       /\ HasKey(j, j.obj["pass_class"].str)
       /\ IsObj(j.obj[j.obj["pass_class"].str]))
    THEN j
  ELSE
    LET c == j.obj["pass_class"].str
        p == j.obj[c]
        below ==
          IF c = "StandardPass"
            THEN IF KnownNode(j)
                   THEN JObj([k \in Keys(p) \cap ({"name"} \cup FieldKeys(VariantFields(j))) |->
                                p.obj[k]])
                   ELSE p
          ELSE IF c = "SequencePass"
            THEN IF HasKey(p, "sequence") /\ IsArr(p.obj["sequence"])
                   THEN JObj([k \in Keys(p) |->
                                IF k = "sequence"
                                  THEN JArr([i \in 1..Len(p.obj[k].arr) |->
                                               StripPayloads(p.obj[k].arr[i])])
                                  ELSE p.obj[k]])
                   ELSE p
          ELSE JObj([k \in Keys(p) |-> IF k = "body" THEN StripPayloads(p.obj[k]) ELSE p.obj[k]])
    IN  JObj([k \in Keys(j) |-> IF k = c THEN below ELSE j.obj[k]])

\* C14: decoding a StandardPass payload with a known name that also carries
\* keys which are not fields of that variant gives the result of decoding
\* the document without those keys, and succeeds when the rest is
\* well-formed; the keys are not kept in the tree and do not reappear when
\* the tree is encoded again.
C14_PayloadExtrasIgnored ==
  /\ pc = "decoded" /\ (\E n \in PassNodes(doc) : ExtraPayloadKeys(n)) =>
       /\ res = DecodeBasePass(StripPayloads(doc))
       /\ WellFormed(StripPayloads(doc)) => IsOk(res)
  /\ pc = "reencoded" =>
       /\ \A n \in PassNodes(out) : ~ExtraPayloadKeys(n)
       /\ WellFormedFloats(StripPayloads(doc)) => out = StripPayloads(doc)

\* A RemoveRedundancies payload with an extra key, nested in a wrapper, was
\* decoded, and the tree encoded again has lost the key.
C14_Witness ==
  /\ pc = "reencoded"
  /\ doc # out
  /\ out = StripPayloads(doc)
  /\ \E n \in PassNodes(doc) :
       /\ n # doc
       /\ ExtraPayloadKeys(n)
       /\ PayloadOf(n).obj["name"] = JStr("RemoveRedundancies")

====
